---- MODULE Spec2Model ----
(***************************************************************************)
(* Model of the satellite conjunction predictor: backend/predictor.py      *)
(* (load_tles, get_position, compute_min_distance) and backend/app.py      *)
(* (the module-level catalog `satellites`, /predict and /refresh).         *)
(*                                                                         *)
(* Conventions.                                                            *)
(*  - A text line is a tuple of one-character strings, "\n" included, as   *)
(*    readlines() returns it.                                              *)
(*  - Distances and coordinates are integers in metres (0.001 km).         *)
(*  - Time is an integer number of minutes.                                *)
(*  - The sgp4 library is an external collaborator; it is modelled by a    *)
(*    scripted ephemeris `eph` (element set id -> table of outcomes),      *)
(*    which the functions that propagate take as their first argument.    *)
(***************************************************************************)
EXTENDS Integers, Sequences, FiniteSets, TLC

VARIABLES
    files,        \* the tle/ directory: source index -> Missing or list of lines
    satellites,   \* app.py module global `satellites` (name -> Satrec)
    ppc,          \* position of the /predict request thread
    req,          \* locals of the /predict request in flight
    response,     \* outcome of the /predict request
    refresh_resp, \* outcome of the last /refresh request
    call,         \* arguments of a direct call of a predictor.py function
    ret           \* its return value

vars == <<files, satellites, ppc, req, response, refresh_resp, call, ret>>

----------------------------------------------------------------------------
(* Bounds of the model *)

\* number of entries of TLE_SOURCES that are modelled (app.py has six)
NumSources == 2
\* total number of text lines over all the sources of a direct load_tles call
MaxLines == 6
\* length of the scripted ephemeris tables (the script repeats after it)
OrbitSlots == 3
\* largest `hours` argument of a direct compute_min_distance call
MaxHours == 2
\* largest distance, in km, given to the risk classification directly
MaxKm == 210

\* minutes covered by one entry of an ephemeris table
SlotMinutes == 20

\* default arguments of compute_min_distance
DefaultHours == 24
DefaultStepMinutes == 5

\* thresholds of the risk classification, in km
CriticalKm == 5
ElevatedKm == 50
ModerateKm == 200

----------------------------------------------------------------------------
(* Python values *)

\* the value None (a query parameter that is absent, a failed propagation)
PyNone == <<"<None>">>

\* float("inf") and finite floats (metres)
PyInf == [type |-> "float", inf |-> TRUE, val |-> 0]
PyFloat(d) == [type |-> "float", inf |-> FALSE, val |-> d]

\* a < b on floats
FloatLt(a, b) ==
    IF a.inf THEN FALSE
    ELSE IF b.inf THEN TRUE
    ELSE a.val < b.val

FloatGe(a, b) == ~FloatLt(a, b)

\* an empty dict, and d[k] = v
EmptyDict == [n \in {} |-> PyNone]
DictPutKeepFirst(d, k, v) ==
    [n \in (DOMAIN d) \cup {k} |-> IF n \in DOMAIN d THEN d[n] ELSE v]
DictPut(d, k, v) == [n \in (DOMAIN d) \cup {k} |-> IF n = k THEN v ELSE d[n]]

----------------------------------------------------------------------------
(* Text lines *)

Whitespace == {" ", "\n"}

\* str.strip(): drop leading and trailing whitespace
RECURSIVE LStrip(_)
LStrip(s) ==
    IF s # <<>> /\ Head(s) \in Whitespace THEN LStrip(Tail(s)) ELSE s

RECURSIVE RStrip(_)
RStrip(s) ==
    IF s # <<>> /\ s[Len(s)] \in Whitespace
    THEN RStrip(SubSeq(s, 1, Len(s) - 1))
    ELSE s

Strip(s) == RStrip(LStrip(s))

\* the lines that occur in the modelled TLE files
NameA    == <<"A", "\n">>
NameApad == <<" ", "A", " ", "\n">>
NameB    == <<"B", "\n">>
Line1x   == <<"1", "x", "\n">>
Line1y   == <<"1", "y", "\n">>
Line1z   == <<"1", "z", "\n">>
Line2    == <<"2", "\n">>
Html     == <<"<", "\n">>

----------------------------------------------------------------------------
(* predictor.py: load_tles *)

\* a file of the tle/ directory
Missing == [exists |-> FALSE, lines |-> <<>>]
TextFile(ls) == [exists |-> TRUE, lines |-> ls]

\* outcome of a Python call: a value, or an exception
Returned(v) == [raised |-> FALSE, value |-> v]
Raised(e) == [raised |-> TRUE, exc |-> e]

\* Satrec.twoline2rv(l1, l2): the library accepts a line 1 that starts with
\* "1" and names an element set, followed by a line 2 that starts with "2";
\* anything else raises.
twoline2rv(l1, l2) ==
    IF /\ Len(l1) >= 2 /\ l1[1] = "1"
       /\ Len(l2) >= 1 /\ l2[1] = "2"
    THEN Returned([id |-> l1[2], line1 |-> l1, line2 |-> l2])
    ELSE Raised("ValueError")

\* `if i + 2 < len(lines)`
HasGroupOffByOne(lines, i) == i + 3 < Len(lines)
HasGroup(lines, i) == i + 2 < Len(lines)

\* the body of `for i in range(0, len(lines), 3)`; i is the 0-based offset
RECURSIVE LoadGroups(_, _, _)
LoadGroups(sats, lines, i) ==
    IF i >= Len(lines) THEN sats
    ELSE IF HasGroup(lines, i)
         THEN LET name == Strip(lines[i + 1])
                  l1 == Strip(lines[i + 2])
                  l2 == Strip(lines[i + 3])
                  parsed == twoline2rv(l1, l2)
              IN  IF parsed.raised
                  THEN LoadGroups(sats, lines, i + 3)
                  ELSE LoadGroups(DictPut(sats, name, parsed.value), lines, i + 3)
         ELSE LoadGroups(sats, lines, i + 3)

\* the body of `for file_path in file_paths`; open() raises on a missing file
RECURSIVE LoadFiles(_, _, _, _)
LoadFiles(sats, fs, file_paths, k) ==
    IF k > Len(file_paths) THEN Returned(sats)
    ELSE IF ~fs[file_paths[k]].exists THEN Raised("FileNotFoundError")
         ELSE LoadFiles(LoadGroups(sats, fs[file_paths[k]].lines, 0),
                        fs, file_paths, k + 1)

load_tles(fs, file_paths) == LoadFiles(EmptyDict, fs, file_paths, 1)

----------------------------------------------------------------------------
(* predictor.py: get_position, compute_min_distance *)

\* one answer of the propagator: (error, r)
SgpOk(r) == [error |-> 0, r |-> r]
SgpDecayed == [error |-> 6, r |-> <<0, 0, 0>>]

\* jday(...): whole days and the minutes of the day
jday(dt) == <<dt \div 1440, dt % 1440>>

\* satrec.sgp4(jd, fr): the scripted ephemeris of the element set, which
\* repeats after OrbitSlots entries of SlotMinutes each
sgp4(eph, satrec, jd, fr) ==
    eph[satrec.id][(((jd * 1440 + fr) \div SlotMinutes) % OrbitSlots) + 1]

\* a position, or None
NoPosition == [none |-> TRUE, r |-> <<0, 0, 0>>]
Position(r) == [none |-> FALSE, r |-> r]

get_position(eph, satrec_obj, dt) ==
    LET t == jday(dt)
        res == sgp4(eph, satrec_obj, t[1], t[2])
    IN  IF res.error # 0 THEN NoPosition ELSE Position(res.r)

\* largest r with r * r <= n
RECURSIVE SqrtSearch(_, _, _)
SqrtSearch(n, lo, hi) ==
    IF lo >= hi THEN lo
    ELSE LET mid == (lo + hi + 1) \div 2
         IN  IF mid * mid <= n THEN SqrtSearch(n, mid, hi)
                               ELSE SqrtSearch(n, lo, mid - 1)

\* np.linalg.norm(pos1 - pos2), to the metre
Norm(r1, r2) ==
    LET dx == r1[1] - r2[1]
        dy == r1[2] - r2[2]
        dz == r1[3] - r2[3]
    IN  SqrtSearch(dx * dx + dy * dy + dz * dz, 0, 46340)

\* `if dist < min_dist: min_dist = dist`
UpdateMinDropCompare(min_dist, dist) == dist
UpdateMin(min_dist, dist) ==
    IF FloatLt(dist, min_dist) THEN dist ELSE min_dist

\* one turn of `for t in range(0, hours * 60, step_minutes)`
SampleStep(eph, min_dist, sat1, sat2, dt) ==
    LET pos1 == get_position(eph, sat1, dt)
        pos2 == get_position(eph, sat2, dt)
    IN  IF ~pos1.none /\ ~pos2.none
        THEN UpdateMin(min_dist, PyFloat(Norm(pos1.r, pos2.r)))
        ELSE min_dist

\* `for t in range(t, stop, step_minutes)` with the running minimum carried
\* through. A range of more than one instant is run as its first half
\* followed by its second half, which is the same sequence of turns.
RECURSIVE SampleLoop(_, _, _, _, _, _, _, _)
SampleLoop(eph, min_dist, sat1, sat2, now, t, stop, step_minutes) ==
    IF t >= stop THEN min_dist
    ELSE IF t + step_minutes >= stop
         THEN SampleStep(eph, min_dist, sat1, sat2, now + t)
         ELSE LET turns == (stop - t + step_minutes - 1) \div step_minutes
                  mid == t + (turns \div 2) * step_minutes
                  first == SampleLoop(eph, min_dist, sat1, sat2, now, t, mid, step_minutes)
              IN  IF first.type = "float"  \* always: the first half is evaluated first
                  THEN SampleLoop(eph, first, sat1, sat2, now, mid, stop, step_minutes)
                  ELSE first

\* compute_min_distance; `now` is what datetime.utcnow() answers.
\* The function returns min_dist alone, a float.
compute_min_distance(eph, sat1, sat2, now, hours, step_minutes) ==
    SampleLoop(eph, PyInf, sat1, sat2, now, 0, hours * 60, step_minutes)

----------------------------------------------------------------------------
(* app.py: the risk classification of predict, and the rounding *)

CRITICAL == [risk |-> "CRITICAL",
             risk_msg |-> "High probability of collision. Immediate evasive action required."]
ELEVATED == [risk |-> "ELEVATED",
             risk_msg |-> "Satellites will pass dangerously close. Monitoring recommended."]
MODERATE == [risk |-> "MODERATE",
             risk_msg |-> "Close approach detected, but no immediate collision risk."]
LOW      == [risk |-> "LOW",
             risk_msg |-> "Satellites remain at safe separation distance."]

\* min_dist < km, for a float in metres and a threshold in km
BelowOrAtKm(min_dist, km) == ~FloatLt(PyFloat(km * 1000), min_dist)
BelowKm(min_dist, km) == FloatLt(min_dist, PyFloat(km * 1000))

\* the if / elif chain
Classify(min_dist) ==
    IF BelowKm(min_dist, CriticalKm) THEN CRITICAL
    ELSE IF BelowKm(min_dist, ElevatedKm) THEN ELEVATED
    ELSE IF BelowKm(min_dist, ModerateKm) THEN MODERATE
    ELSE LOW

\* float(round(min_dist, 2)): metres to hundredths of a km, half to even;
\* round(inf, 2) is inf
Round2(min_dist) ==
    IF min_dist.inf THEN PyInf
    ELSE LET q == min_dist.val \div 10
             r == min_dist.val % 10
         IN  PyFloat(IF r > 5 \/ (r = 5 /\ q % 2 = 1) THEN q + 1 ELSE q)

----------------------------------------------------------------------------
(* app.py: the catalog, /predict and /refresh *)

\* TLE_SOURCES.keys(), in order: the sources are numbered 1 .. NumSources
AllPaths == [i \in 1..NumSources |-> i]

\* what a download can leave in a source file
Good2    == <<NameA, Line1x, Line2, NameB, Line1y, Line2>>
Decayed  == <<NameApad, Line1x, Line2, NameB, Line1z, Line2>>
Wiped    == <<NameA, Html, Html, NameB, Line1y, Line2, NameA>>
Downloads == {Good2, Decayed, Wiped}

\* the names a request can carry; PyNone is a missing query parameter
QueryNames == {Strip(NameA), Strip(NameB), PyNone}

\* the answers of the propagator for the element sets x, y, z: y stays 10 km
\* from x at every instant, z has decayed
ScriptedEphem ==
    [id \in {"x", "y", "z"} |->
        [k \in 1..OrbitSlots |->
            IF id = "x" THEN SgpOk(<<1000 * k, 0, 0>>)
            ELSE IF id = "y" THEN SgpOk(<<1000 * k, 0, 10000>>)
            ELSE SgpDecayed]]

\* what datetime.utcnow() can answer
WindowStarts == {0, 25}

\* the records twoline2rv can build from the modelled files
ScriptedSatrecs ==
    {twoline2rv(Strip(l1), Strip(Line2)).value : l1 \in {Line1x, Line1y, Line1z}}

\* compute_min_distance(sat1, sat2) as predict calls it, for every pair of
\* records and every answer of the clock. The table is merged with the empty
\* function so that it is built once and each call is evaluated once.
MinDistanceOf ==
    [a \in ScriptedSatrecs \X ScriptedSatrecs \X WindowStarts |->
        compute_min_distance(ScriptedEphem, a[1], a[2], a[3],
                             DefaultHours, DefaultStepMinutes)] @@ <<>>

\* the states of one source file
FileStates == {Missing} \cup {TextFile(c) : c \in Downloads}

\* load_tles over every source, for every state of the tle/ directory (a
\* table built once, as MinDistanceOf)
LoadAll == [fs \in [1..NumSources -> FileStates] |-> load_tles(fs, AllPaths)] @@ <<>>

\* the files that exist, as the list comprehension at module level keeps them
ExistingPaths(fs) == SelectSeq(AllPaths, LAMBDA i : fs[i].exists)

\* responses
NoResponse == [status |-> 0]
Error400 == [status |-> 400, body |-> [error |-> "Satellite not found in local TLEs"]]
Crash(e) == [status |-> 500, exc |-> e]
Success(b) == [status |-> 200, body |-> b]

NoSatrec == [id |-> "-", line1 |-> <<>>, line2 |-> <<>>]

\* locals of a /predict request; cat0, mixed, quiet and refreshed are
\* history variables: the catalog its first access observed, whether a later
\* access observed another one, whether no refresh ran since it started, and
\* whether a refresh had run before it started
IdleReq == [sat1_name |-> PyNone, sat2_name |-> PyNone,
            cat0 |-> EmptyDict, mixed |-> FALSE,
            quiet |-> TRUE, refreshed |-> FALSE,
            sat1 |-> NoSatrec, sat2 |-> NoSatrec,
            sampled |-> FALSE, now |-> 0, min_ret |-> PyInf]

\* `min_dist, closest_time = value`
Unpack2(value) ==
    IF value.type = "tuple"
    THEN IF Len(value.items) = 2 THEN Returned(value.items)
                                 ELSE Raised("ValueError")
    ELSE Raised("TypeError")

\* `name not in satellites`
NotInInverted(name, catalog) == name \in DOMAIN catalog
NotIn(name, catalog) == name \notin DOMAIN catalog

\* line 41, first operand: `sat1_name not in satellites`
PredictTest1(s1, s2) ==
    /\ ppc = "idle"
    /\ req' = [IdleReq EXCEPT !.sat1_name = s1, !.sat2_name = s2,
                              !.cat0 = satellites,
                              !.refreshed = (refresh_resp.status # 0)]
    /\ IF NotIn(s1, satellites)
       THEN /\ response' = Error400
            /\ ppc' = "done"
       ELSE /\ response' = NoResponse
            /\ ppc' = "test2"
    /\ UNCHANGED <<files, satellites, refresh_resp, call, ret>>

\* line 41, second operand: `sat2_name not in satellites`
PredictTest2 ==
    /\ ppc = "test2"
    /\ req' = [req EXCEPT !.mixed = (@ \/ satellites # req.cat0)]
    /\ IF NotIn(req.sat2_name, satellites)
       THEN /\ response' = Error400
            /\ ppc' = "done"
       ELSE /\ response' = NoResponse
            /\ ppc' = "lookup1"
    /\ UNCHANGED <<files, satellites, refresh_resp, call, ret>>

\* line 47: satellites[sat1_name]
PredictLookup1 ==
    /\ ppc = "lookup1"
    /\ IF req.sat1_name \notin DOMAIN satellites
       THEN /\ req' = [req EXCEPT !.mixed = (@ \/ satellites # req.cat0)]
            /\ response' = Crash("KeyError")
            /\ ppc' = "done"
       ELSE /\ req' = [req EXCEPT !.mixed = (@ \/ satellites # req.cat0),
                                  !.sat1 = satellites[req.sat1_name]]
            /\ response' = NoResponse
            /\ ppc' = "lookup2"
    /\ UNCHANGED <<files, satellites, refresh_resp, call, ret>>

\* lines 69-76: the success body
SuccessBody(sat1_name, sat2_name, min_dist, closest_time) ==
    LET c == Classify(min_dist)
    IN  [sat1 |-> sat1_name, sat2 |-> sat2_name,
         min_distance_km |-> Round2(min_dist),
         closest_approach_time |-> closest_time,
         risk_category |-> c.risk, risk_message |-> c.risk_msg]

\* line 48 to the end of predict: satellites[sat2_name], the call of
\* compute_min_distance, the unpacking of its value, the classification
PredictLookup2(now) ==
    /\ ppc = "lookup2"
    /\ ppc' = "done"
    /\ IF req.sat2_name \notin DOMAIN satellites
       THEN /\ req' = [req EXCEPT !.mixed = (@ \/ satellites # req.cat0)]
            /\ response' = Crash("KeyError")
       ELSE \E value \in {MinDistanceOf[<<req.sat1, satellites[req.sat2_name], now>>]} :
            LET pair == Unpack2(value)
            IN  /\ req' = [req EXCEPT !.mixed = (@ \/ satellites # req.cat0),
                                      !.sat2 = satellites[req.sat2_name],
                                      !.sampled = TRUE,
                                      !.now = now, !.min_ret = value]
                /\ response' =
                      IF pair.raised THEN Crash(pair.exc)
                      ELSE Success(SuccessBody(req.sat1_name, req.sat2_name,
                                               pair.value[1], pair.value[2]))
    /\ UNCHANGED <<files, satellites, refresh_resp, call, ret>>

\* the response is sent; the thread takes the next request
PredictReturn ==
    /\ ppc = "done"
    /\ ppc' = "idle"
    /\ req' = IdleReq
    /\ response' = NoResponse
    /\ UNCHANGED <<files, satellites, refresh_resp, call, ret>>

\* /refresh. dl[i] is what curl does to source i: "fail" leaves the file as
\* it is (curl's exit status is not looked at), a download replaces it.
\* Then load_tles over every source; its value is bound to the global
\* `satellites` in one assignment. `had` is a history field: the names of
\* the catalog before the refresh.
NoRefresh == [status |-> 0]
Refresh(dl) ==
    \E fs \in {[i \in 1..NumSources |->
                  IF dl[i] = <<"fail">> THEN files[i] ELSE TextFile(dl[i])]} :
    \E loaded \in {LoadAll[fs]} :
        /\ files' = fs
        /\ IF loaded.raised
           THEN /\ satellites' = satellites
                /\ refresh_resp' = [status |-> 500, exc |-> loaded.exc,
                                    had |-> DOMAIN satellites]
           ELSE /\ satellites' = loaded.value
                /\ refresh_resp' = [status |-> 200,
                                    count |-> Cardinality(DOMAIN loaded.value),
                                    had |-> DOMAIN satellites]
        /\ req' = IF ppc # "idle"
                  THEN [req EXCEPT !.quiet = FALSE] ELSE req
        /\ UNCHANGED <<ppc, response, call, ret>>

NoCall == [fn |-> "none"]
NoRet == [pending |-> TRUE]

\* the state after `import app`: the files that exist are loaded
Init ==
    /\ files \in [1..NumSources -> FileStates]
    /\ satellites = load_tles(files, ExistingPaths(files)).value
    /\ ppc = "idle"
    /\ req = IdleReq
    /\ response = NoResponse
    /\ refresh_resp = NoRefresh
    /\ call = NoCall
    /\ ret = NoRet

Next ==
    \/ \E s1 \in QueryNames, s2 \in QueryNames : PredictTest1(s1, s2)
    \/ PredictTest2
    \/ PredictLookup1
    \/ \E now \in WindowStarts : PredictLookup2(now)
    \/ PredictReturn
    \/ \E dl \in [1..NumSources -> {<<"fail">>} \cup Downloads] : Refresh(dl)

Spec == Init /\ [][Next]_vars

----------------------------------------------------------------------------
(* Direct calls of load_tles: every split over two sources of every text   *)
(* of at most MaxLines lines                                                *)

LoadLines == {NameA, NameApad, Line1x, Line1y, Line2}
LoadPaths == <<1, 2>>

InitLoad ==
    /\ \E n \in 0..MaxLines : \E text \in [1..n -> LoadLines] : \E k \in 0..n :
         \E second \in {TextFile(SubSeq(text, k + 1, n))}
                       \cup (IF k = n THEN {Missing} ELSE {}) :
            files = [i \in 1..2 |-> IF i = 1 THEN TextFile(SubSeq(text, 1, k))
                                             ELSE second]
    /\ call = [fn |-> "load_tles", file_paths |-> LoadPaths]
    /\ ret = NoRet
    /\ satellites = EmptyDict
    /\ ppc = "idle"
    /\ req = IdleReq
    /\ response = NoResponse
    /\ refresh_resp = NoRefresh

LoadCall ==
    /\ call.fn = "load_tles"
    /\ ret = NoRet
    /\ ret' = load_tles(files, call.file_paths)
    /\ UNCHANGED <<files, satellites, ppc, req, response, refresh_resp, call>>

NextLoad == LoadCall

LoadSpec == InitLoad /\ [][NextLoad]_vars

----------------------------------------------------------------------------
(* Direct calls of compute_min_distance against every scripted propagator  *)

SatX == twoline2rv(Strip(Line1x), Strip(Line2)).value
SatY == twoline2rv(Strip(Line1y), Strip(Line2)).value

OutcomesX == {SgpDecayed, SgpOk(<<0, 0, 0>>), SgpOk(<<3000, 0, 0>>)}
OutcomesY == {SgpDecayed, SgpOk(<<3000, 4000, 0>>)}

Steps == {DefaultStepMinutes, 20, 45}

InitSampler ==
    /\ \E ex \in [1..OrbitSlots -> OutcomesX], ey \in [1..OrbitSlots -> OutcomesY],
          now \in WindowStarts, hours \in 1..MaxHours, step_minutes \in Steps :
         call = [fn |-> "compute_min_distance",
                 eph |-> [id \in {"x", "y"} |-> IF id = "x" THEN ex ELSE ey],
                 sat1 |-> SatX, sat2 |-> SatY, now |-> now,
                 hours |-> hours, step_minutes |-> step_minutes]
    /\ ret = NoRet
    /\ files = [i \in 1..NumSources |-> Missing]
    /\ satellites = EmptyDict
    /\ ppc = "idle"
    /\ req = IdleReq
    /\ response = NoResponse
    /\ refresh_resp = NoRefresh

SampleCall ==
    /\ call.fn = "compute_min_distance"
    /\ ret = NoRet
    /\ ret' = compute_min_distance(call.eph, call.sat1, call.sat2, call.now,
                                   call.hours, call.step_minutes)
    /\ UNCHANGED <<files, satellites, ppc, req, response, refresh_resp, call>>

NextSampler == SampleCall

SamplerSpec == InitSampler /\ [][NextSampler]_vars

----------------------------------------------------------------------------
(* The classification and the success body of predict, lines 51 to 76, on  *)
(* every minimum distance of a grid around the whole kilometres            *)

ClassifyInputs ==
    {km * 1000 + m : km \in 0..MaxKm, m \in {0, 1, 499, 995, 999}}

InitClassify ==
    /\ \E d \in ClassifyInputs, t \in WindowStarts :
         call = [fn |-> "classify", min_dist |-> PyFloat(d), closest_time |-> t]
    /\ ret = NoRet
    /\ files = [i \in 1..NumSources |-> Missing]
    /\ satellites = EmptyDict
    /\ ppc = "idle"
    /\ req = IdleReq
    /\ response = NoResponse
    /\ refresh_resp = NoRefresh

ClassifyCall ==
    /\ call.fn = "classify"
    /\ ret = NoRet
    /\ ret' = SuccessBody(Strip(NameA), Strip(NameB), call.min_dist, call.closest_time)
    /\ UNCHANGED <<files, satellites, ppc, req, response, refresh_resp, call>>

NextClassify == ClassifyCall

ClassifySpec == InitClassify /\ [][NextClassify]_vars

----------------------------------------------------------------------------
(* What the properties speak of, stated without the loops of the code *)

\* the complete 3-line groups of a text, in order
FullGroups(lines) ==
    [g \in 1..(Len(lines) \div 3) |->
        <<lines[3 * g - 2], lines[3 * g - 1], lines[3 * g]>>]

\* the groups of the two sources of a direct load, in processing order
GroupsRead == FullGroups(files[1].lines) \o FullGroups(files[2].lines)

GroupName(g) == Strip(g[1])
GroupParse(g) == twoline2rv(Strip(g[2]), Strip(g[3]))
ParsedGroups == {j \in DOMAIN GroupsRead : ~GroupParse(GroupsRead[j]).raised}

\* the last successfully parsed group that carries the name of group j
LastOf(j) ==
    CHOOSE i \in ParsedGroups :
        /\ GroupName(GroupsRead[i]) = GroupName(GroupsRead[j])
        /\ \A k \in ParsedGroups :
              GroupName(GroupsRead[k]) = GroupName(GroupsRead[j]) => k <= i

LoadDone == call.fn = "load_tles" /\ ret # NoRet
SourcesExist == files[1].exists /\ files[2].exists

\* the offsets, in minutes, of the sample instants of a window
Offsets(hours, step_minutes) ==
    {k * step_minutes : k \in 0..((hours * 60 - 1) \div step_minutes)}

\* the offsets at which both positions are available
ValidOffsets(eph, sat1, sat2, now, hours, step_minutes) ==
    {t \in Offsets(hours, step_minutes) :
        /\ ~get_position(eph, sat1, now + t).none
        /\ ~get_position(eph, sat2, now + t).none}

DistanceAt(eph, sat1, sat2, dt) ==
    Norm(get_position(eph, sat1, dt).r, get_position(eph, sat2, dt).r)

SampleDone == call.fn = "compute_min_distance" /\ ret # NoRet
CallValid ==
    ValidOffsets(call.eph, call.sat1, call.sat2, call.now, call.hours, call.step_minutes)
CallDistance(t) == DistanceAt(call.eph, call.sat1, call.sat2, call.now + t)

ClassifyDone == call.fn = "classify" /\ ret # NoRet

\* the request in flight went through both lookups and called the sampler
PredictSampled == ppc = "done" /\ req.sampled
ReqValid ==
    ValidOffsets(ScriptedEphem, req.sat1, req.sat2, req.now,
                 DefaultHours, DefaultStepMinutes)

\* some complete group of an existing source file parses and carries the name
HasValidEntry(fs, name) ==
    \E i \in DOMAIN fs :
        /\ fs[i].exists
        /\ \E g \in DOMAIN FullGroups(fs[i].lines) :
              /\ GroupName(FullGroups(fs[i].lines)[g]) = name
              /\ ~GroupParse(FullGroups(fs[i].lines)[g]).raised

----------------------------------------------------------------------------
(* Properties *)

\* C1: the catalog accesses of one /predict request that got past the
\* membership tests (the two tests and the lookups) observe the same catalog,
\* whatever /refresh does meanwhile; in particular a name that passed the
\* membership test is found by the lookup that follows.
C1_OneCatalogPerRequest ==
    (ppc = "done" /\ response.status # 400) =>
        /\ ~req.mixed
        /\ response # Crash("KeyError")

\* C2: for two known satellites with at least one valid sample, predict ends
\* with the success record built from the sampler's result and not with an
\* error; when the two are 10 km apart at every instant the record carries
\* min_distance_km = 10.0, ELEVATED and its message.
C2_PredictSucceeds ==
    (PredictSampled /\ req.sat1_name # req.sat2_name /\ ReqValid # {}) =>
        /\ response.status = 200
        /\ response.body.sat1 = req.sat1_name
        /\ response.body.sat2 = req.sat2_name
        /\ response.body.risk_category \in {"CRITICAL", "ELEVATED", "MODERATE", "LOW"}
        /\ (\A t \in Offsets(DefaultHours, DefaultStepMinutes) :
               /\ t \in ReqValid
               /\ DistanceAt(ScriptedEphem, req.sat1, req.sat2, req.now + t) = 10000)
           => /\ response.body.min_distance_km = PyFloat(1000)
              /\ response.body.risk_category = ELEVATED.risk
              /\ response.body.risk_message = ELEVATED.risk_msg

\* C3: when no sample instant has both positions, the sampler reports no
\* valid minimum and predict answers with an 'undetermined' outcome: no
\* infinity as min_distance_km, no risk category, no crash.
C3_UndeterminedSurfaced ==
    (PredictSampled /\ ReqValid = {}) =>
        /\ ~req.min_ret.inf
        /\ response.status = 200
        /\ "risk_category" \notin DOMAIN response.body
        /\ "error" \notin DOMAIN response.body

\* C4: a predict request with sat1 or sat2 absent from the catalog (a missing
\* query parameter included) ends with the 400 error outcome before any
\* lookup or sampling, and leaves the catalog as it was; the error outcome
\* carries the error message alone.
C4_UnknownRejected ==
    /\ (/\ ppc = "done"
        /\ req.quiet
        /\ \/ req.sat1_name \notin DOMAIN satellites
           \/ req.sat2_name \notin DOMAIN satellites)
       => /\ response = Error400
          /\ ~req.sampled
          /\ req.sat1 = NoSatrec
          /\ req.sat2 = NoSatrec
          /\ satellites = req.cat0
    /\ response.status = 400 => DOMAIN response.body = {"error"}

C4_Witness ==
    /\ ppc = "done"
    /\ req.quiet
    /\ req.sat1_name \in DOMAIN satellites
    /\ req.sat2_name = PyNone
    /\ response = Error400

\* C5: the category is decided on the unrounded minimum distance with
\* half-open ranges: below 5 km CRITICAL, from 5 km and below 50 km ELEVATED,
\* from 50 km and below 200 km MODERATE, from 200 km LOW, each with its
\* message.
C5_ClassifyBoundaries ==
    ClassifyDone =>
        LET d == call.min_dist.val
        IN  /\ d < 5000 => ret.risk_category = "CRITICAL"
            /\ (5000 <= d /\ d < 50000) => ret.risk_category = "ELEVATED"
            /\ (50000 <= d /\ d < 200000) => ret.risk_category = "MODERATE"
            /\ 200000 <= d => ret.risk_category = "LOW"
            /\ ret.risk_message =
                  (CHOOSE c \in {CRITICAL, ELEVATED, MODERATE, LOW} :
                      c.risk = ret.risk_category).risk_msg

\* 4.999 km is CRITICAL although the distance reported is rounded to 5.00
C5_Witness ==
    /\ ClassifyDone
    /\ call.min_dist.val = 4999
    /\ ret.risk_category = "CRITICAL"
    /\ ret.min_distance_km = PyFloat(500)

\* C6: a name carried by several successfully parsed groups, within one
\* source or across sources, has one entry in the catalog load returns, the
\* record of the last such group in processing order; groups of that name
\* that fail to parse change nothing.
C6_LastWriteWins ==
    (LoadDone /\ ~ret.raised) =>
        \A j \in ParsedGroups :
            /\ GroupName(GroupsRead[j]) \in DOMAIN ret.value
            /\ ret.value[GroupName(GroupsRead[j])]
                  = GroupParse(GroupsRead[LastOf(j)]).value

C6_Witness ==
    /\ LoadDone
    /\ ~ret.raised
    /\ \E i \in ParsedGroups, j \in ParsedGroups :
          /\ i < j
          /\ GroupName(GroupsRead[i]) = GroupName(GroupsRead[j])
          /\ GroupParse(GroupsRead[i]).value # GroupParse(GroupsRead[j]).value
          /\ ret.value[GroupName(GroupsRead[i])] = GroupParse(GroupsRead[j]).value

\* C7, as claimed: load does not raise for a malformed entry, and the number
\* of entries of the catalog is the number of groups that parsed.
C7_CountIsParsedGroups ==
    (LoadDone /\ SourcesExist) =>
        /\ ~ret.raised
        /\ Cardinality(DOMAIN ret.value) = Cardinality(ParsedGroups)

\* C7, amended: load does not raise for a malformed entry (it raises only
\* when a source file is missing); the catalog holds exactly the names of the
\* complete groups that parsed, so its count is the number of distinct names
\* among them, and never more than the number of groups that parsed.
C7_CountIsDistinctNames ==
    /\ (LoadDone /\ SourcesExist) =>
          /\ ~ret.raised
          /\ DOMAIN ret.value = {GroupName(GroupsRead[j]) : j \in ParsedGroups}
          /\ Cardinality(DOMAIN ret.value) <= Cardinality(ParsedGroups)
    /\ (LoadDone /\ ret.raised) => ~SourcesExist

\* a malformed group is skipped and the group after it is loaded
C7_Witness ==
    /\ LoadDone
    /\ SourcesExist
    /\ ~ret.raised
    /\ \E i \in DOMAIN GroupsRead, j \in ParsedGroups :
          /\ i < j
          /\ GroupParse(GroupsRead[i]).raised
          /\ GroupName(GroupsRead[i]) # GroupName(GroupsRead[j])
    /\ Cardinality(DOMAIN ret.value) = 1

\* C8: after a refresh that leaves the sources without a valid entry for one
\* of two names the catalog had, the refresh has completed with the catalog
\* replaced by the newly loaded one, and a following predict that asks for
\* the two names ends with the unknown-satellite error; neither request
\* crashes.
C8_WipedThenUnknown ==
    (/\ ppc = "done"
     /\ req.refreshed
     /\ req.quiet
     /\ req.sat1_name # req.sat2_name
     /\ {req.sat1_name, req.sat2_name} \subseteq refresh_resp.had
     /\ \E n \in {req.sat1_name, req.sat2_name} : ~HasValidEntry(files, n))
    => /\ refresh_resp.status = 200
       /\ ~LoadAll[files].raised
       /\ satellites = LoadAll[files].value
       /\ response = Error400

\* C9: the sampler returns the pair (minimum distance over the instants where
\* both positions are available, instant at which it occurred), the instant
\* being the first one among those that share the minimum.
C9_ReturnsMinAndInstant ==
    (SampleDone /\ CallValid # {}) =>
        LET tmin == CHOOSE t \in CallValid :
                        \A u \in CallValid :
                            \/ CallDistance(t) < CallDistance(u)
                            \/ (CallDistance(t) = CallDistance(u) /\ t <= u)
        IN  ret = [type |-> "tuple",
                   items |-> <<PyFloat(CallDistance(tmin)), call.now + tmin>>]

\* C10: the minimum over a window restricted to a subset of the instants (a
\* smaller number of hours, or a step that is a multiple of the step) is
\* greater than or equal to the minimum over the full window.
C10_ShrinkMonotone ==
    SampleDone =>
        /\ \A h \in 1..call.hours :
              FloatGe(compute_min_distance(call.eph, call.sat1, call.sat2, call.now,
                                           h, call.step_minutes), ret)
        /\ \A m \in 1..3 :
              FloatGe(compute_min_distance(call.eph, call.sat1, call.sat2, call.now,
                                           call.hours, m * call.step_minutes), ret)

\* a shorter window misses the closest approach of the full one
C10_Witness ==
    /\ SampleDone
    /\ ~ret.inf
    /\ \E h \in 1..call.hours :
          LET short == compute_min_distance(call.eph, call.sat1, call.sat2, call.now,
                                            h, call.step_minutes)
          IN  ~short.inf /\ short.val > ret.val

====
